---------------------------- MODULE Spec2Model ----------------------------
(***************************************************************************)
(* Data-fetch-and-fallback orchestration of the PM2.5 air-quality frontend. *)
(*                                                                         *)
(* Modelled components:                                                    *)
(*   - FALLBACK_DATA and the fallback-enabled service airQualityAPI        *)
(*     (getHealth, getCities, getCityData, predict)                        *)
(*   - the widget controller useAirQualityData (safeFetch, checkBackend,   *)
(*     loadCities, loadCityData, the two mount effects, refresh)           *)
(*   - App.getAirQualityRecommendation (the PM2.5 threshold table)         *)
(*   - the axios client airQualityAPI (no fallback)                        *)
(*   - App (checkBackendStatus, loadCityData, handleCityChange) on top of  *)
(*     the fallback-enabled service                                        *)
(*   - the hook useServerHealth (a health check at mount and every 30 s)   *)
(*                                                                         *)
(* Numbers: JavaScript floats are kept as scaled integers.  PM2.5 values   *)
(* are in hundredths of a microgram per cubic metre (38.7 is 3870, 12.01   *)
(* is 1201); confidence is in hundredths (0.87 is 87).                     *)
(*                                                                         *)
(* JavaScript values: null and undefined are the records null and          *)
(* undefined; an object is a record and a missing property is a field      *)
(* that is not in its DOMAIN.                                              *)
(***************************************************************************)
EXTENDS Integers, Sequences, FiniteSets, TLC

VARIABLES
    \* ---- fallback-enabled service airQualityAPI: one call at a time
    prod,            \* import.meta.env.PROD, fixed by the build
    s_pc,            \* "idle", "delay", "fetching", "returned", "thrown"
    s_op,            \* the operation called
    s_city,          \* its cityName argument
    s_requests,      \* the network requests the current call has issued
    s_response,      \* what the network answered to the current call
    s_result,        \* what the call returned or threw
    \* ---- widget controller useAirQualityData
    w_mounted,       \* the effects of the first render have run
    w_data,          \* data
    w_cities,        \* cities
    w_selectedCity,  \* selectedCity
    w_loading,       \* loading
    w_error,         \* error
    w_backendOnline, \* backendOnline
    w_inflight,      \* safeFetch requests awaiting their response, in issue order
    w_userLoads,     \* number of city selections and refreshes so far
    backend,         \* the environment: "up", "down" or "silent"
    \* ---- getAirQualityRecommendation
    c_pc,            \* "input", "first", "done"
    pm25Value,       \* the argument
    level,           \* .level of the result
    pm25Other,       \* a second argument, for comparing two classifications
    levelOther,      \* .level of its result
    \* ---- axios client airQualityAPI: one call at a time
    api_pc,          \* "idle", "pending", "returned", "thrown"
    api_op,          \* the operation called
    api_city,        \* its cityName argument
    api_requests,    \* the HTTP requests the current call has issued
    api_result,      \* what the call returned or threw
    \* ---- App
    a_mounted,       \* the mount effect has run
    a_loading,       \* loading (the fade-in of the first half second)
    a_backendStatus, \* backendStatus
    a_airQualityData, \* airQualityData
    a_cities,        \* cities
    a_selectedCity,  \* selectedCity
    a_loadingCityData, \* loadingCityData
    a_calls,         \* calls of airQualityAPI awaiting their result, in call order
    a_userLoads,     \* number of buttons clicked so far
    a_variant,       \* which App is built: "part_004", or "part_005" (the same
                     \* App in Spanish, with the Actualizar Datos button)
    \* ---- useServerHealth
    h_state,         \* "init", "mounted" (the effect has run) or "unmounted"
    h_isHealthy,     \* isHealthy
    h_loading,       \* loading
    h_interval,      \* the 30 s interval is armed
    h_pending,       \* number of checkHealth calls awaiting getHealth
    h_started        \* number of checkHealth calls started so far

svcVars == <<prod, s_pc, s_op, s_city, s_requests, s_response, s_result>>
widgetVars == <<w_mounted, w_data, w_cities, w_selectedCity, w_loading, w_error,
                w_backendOnline, w_inflight, w_userLoads, backend>>
classVars == <<c_pc, pm25Value, level, pm25Other, levelOther>>
axiosVars == <<api_pc, api_op, api_city, api_requests, api_result>>
appVars == <<a_mounted, a_loading, a_backendStatus, a_airQualityData, a_cities,
             a_selectedCity, a_loadingCityData, a_calls, a_userLoads, a_variant>>
healthVars == <<h_state, h_isHealthy, h_loading, h_interval, h_pending, h_started>>
vars == <<svcVars, widgetVars, classVars, axiosVars, appVars, healthVars>>

-----------------------------------------------------------------------------
(* Bounds of the model *)

\* city selections and refreshes the user makes in one behaviour of the widget
MaxUserLoads == 2

\* the health checks useServerHealth starts in a behaviour
MaxChecks == 4

\* largest PM2.5 input classified, in hundredths (150.00 is the last threshold)
MaxPm25 == 15200

\* spacing, in hundredths, of the inputs used when two inputs are compared
GridStep == 100

-----------------------------------------------------------------------------
(* JavaScript values *)

null == [null |-> TRUE]
undefined == [undefined |-> TRUE]

\* names every plain object inherits from Object.prototype: obj[name] is a
\* truthy value for each of them although obj has no such own property
ObjectPrototypeKeys ==
    {"constructor", "toString", "valueOf", "hasOwnProperty", "__proto__"}

\* obj[key] on a plain object literal
Lookup(obj, key) ==
    IF key \in DOMAIN obj THEN obj[key]
    ELSE IF key \in ObjectPrototypeKeys THEN [inherited |-> key]
    ELSE undefined

\* if (x) for an x that is an object, null or undefined
Truthy(x) == x # null /\ x # undefined

-----------------------------------------------------------------------------
(* FALLBACK_DATA *)

\* new Date().toISOString().split('T')[0], evaluated once when the module loads
TodayISO == "2025-10-05"

\* a plausible slip: the entries are written without their humidity reading
Bundle_NoHumidity(pm25, aqi, quality, temp, hum, predicted, tomorrow, conf) ==
    [current |-> [pm25 |-> pm25, aqi |-> aqi, quality_level |-> quality,
                  weather |-> [temperature |-> temp]],
     prediction |-> [predicted_pm25 |-> predicted, tomorrow_pm25 |-> tomorrow,
                     prediction_date |-> TodayISO, confidence |-> conf]]

Bundle(pm25, aqi, quality, temp, hum, predicted, tomorrow, conf) ==
    [current |-> [pm25 |-> pm25, aqi |-> aqi, quality_level |-> quality,
                  weather |-> [temperature |-> temp, humidity |-> hum]],
     prediction |-> [predicted_pm25 |-> predicted, tomorrow_pm25 |-> tomorrow,
                     prediction_date |-> TodayISO, confidence |-> conf]]

FALLBACK_DATA ==
    [cities |-> << [id |-> "1", name |-> "Ciudad de México"],
                   [id |-> "2", name |-> "Nueva York"],
                   [id |-> "3", name |-> "Los Ángeles"],
                   [id |-> "4", name |-> "Madrid"],
                   [id |-> "5", name |-> "Londres"],
                   [id |-> "6", name |-> "Mendoza"],
                   [id |-> "7", name |-> "Aksu"] >>,
     cityData |->
        ("Ciudad de México" :> Bundle(3870, 77, "MODERATE", 22, 55, 4210, 3980, 87))
     @@ ("Nueva York" :> Bundle(1530, 45, "GOOD", 18, 62, 1870, 1620, 82))
     @@ ("Los Ángeles" :> Bundle(4520, 89, "UNHEALTHY FOR SENSITIVE", 24, 48, 4980, 5210, 85))
     @@ ("Madrid" :> Bundle(3210, 72, "MODERATE", 16, 58, 2860, 3140, 79))
     @@ ("Londres" :> Bundle(2890, 68, "MODERATE", 14, 71, 2520, 2780, 83))
     @@ ("Mendoza" :> Bundle(840, 28, "GOOD", 19, 45, 1080, 920, 88))
     @@ ("Aksu" :> Bundle(16730, 225, "HAZARDOUS", 26, 35, 15970, 17420, 76))]

TableKeys == DOMAIN FALLBACK_DATA.cityData

-----------------------------------------------------------------------------
(* The environment: the backend and the network *)

\* city names passed to the service: the table's keys, a city only the
\* backend knows, another casing of a key, and a name plain objects inherit
CityNames == TableKeys \cup {"Paris", "mendoza", "constructor"}

NoCity == ""

\* the names the two clients are called with side by side
ClientCityNames == {"Mendoza", "Paris", "constructor"}

\* the live readings the backend holds for a city (its own numbers, which
\* differ from the table's)
LiveData(c) ==
    IF c \in TableKeys
    THEN [FALLBACK_DATA.cityData[c] EXCEPT !.current.pm25 = @ + 100,
                                           !.prediction.predicted_pm25 = @ + 100]
    ELSE Bundle(1010, 40, "GOOD", 12, 70, 1110, 1050, 80)

\* a live bundle that lacks its prediction
IncompleteData(c) == [current |-> LiveData(c).current]

\* a live bundle whose confidence is 1.5
OutOfRangeData(c) == [LiveData(c) EXCEPT !.prediction.confidence = 150]

\* the city list of the live backend: it need not agree with the table
BackendCities == << [id |-> "1", name |-> "Ciudad de México"],
                    [id |-> "6", name |-> "Mendoza"],
                    [id |-> "8", name |-> "Paris"] >>

\* a response body that is not JSON: response.json() rejects
BadJson == [badjson |-> TRUE]

HealthPayloads ==
    { [status |-> "healthy", model_loaded |-> TRUE, device |-> "cpu"],
      [status |-> "degraded", model_loaded |-> FALSE, device |-> "cpu"] }

CitiesPayloads ==
    { [success |-> TRUE, cities |-> BackendCities],
      [success |-> FALSE, message |-> "cities unavailable"] }

CityPayloads(c) ==
    { [success |-> TRUE, data |-> LiveData(c)],
      [success |-> TRUE, data |-> IncompleteData(c)],
      [success |-> TRUE, data |-> OutOfRangeData(c)],
      [success |-> TRUE],
      [success |-> FALSE, message |-> "city unavailable"] }

PredictPayloads(c) ==
    { [success |-> TRUE, prediction |-> LiveData(c).prediction],
      [success |-> FALSE, message |-> "prediction unavailable"] }

Payloads(endpoint, c) ==
    CASE endpoint = "health" -> HealthPayloads
      [] endpoint = "cities" -> CitiesPayloads
      [] endpoint = "city" -> CityPayloads(c)
      [] endpoint = "predict" -> PredictPayloads(c)

Rejected == [kind |-> "rejected", ok |-> FALSE, body |-> null]
HttpError == [kind |-> "http", ok |-> FALSE, body |-> null]
HttpOk(body) == [kind |-> "http", ok |-> TRUE, body |-> body]

\* every way a fetch of the endpoint can settle
Responses(endpoint, c) ==
    {Rejected, HttpError, HttpOk(BadJson)}
        \cup {HttpOk(p) : p \in Payloads(endpoint, c)}

NoResponse == [kind |-> "none", ok |-> FALSE, body |-> null]

-----------------------------------------------------------------------------
(* fetch + response.ok + response.json(), as the try blocks use them *)

\* the try block completes normally: fetch resolved, response.ok, JSON parsed
FetchSucceeds(resp) == resp.kind = "http" /\ resp.ok /\ resp.body # BadJson

Return(v) == [kind |-> "return", value |-> v]
Throw(m) == [kind |-> "throw", message |-> m]
Fetch(method, endpoint, c) ==
    [kind |-> "fetch", request |-> [method |-> method, endpoint |-> endpoint, city |-> c]]


-----------------------------------------------------------------------------
(* airQualityAPI, the fallback-enabled service.  Every operation first      *)
(* awaits delay(ms); what runs when the timer fires is <op>_AfterDelay, and *)
(* what runs when the fetch it issued settles is <op>_OnSettled.            *)

GetHealth_AfterDelay(p) ==
    IF p
    THEN Return([status |-> "healthy",
                 message |-> "Demo mode - using simulated data",
                 mode |-> "production"])
    ELSE Fetch("GET", "health", NoCity)

\* a plausible slip: a failed health fetch is rethrown instead of answered
\* with the fallback status
GetHealth_OnSettled_Rethrow(resp) ==
    IF FetchSucceeds(resp)
    THEN Return(resp.body)
    ELSE Throw("Servidor no disponible")

GetHealth_OnSettled(resp) ==
    IF FetchSucceeds(resp)
    THEN Return(resp.body)
    ELSE Return([status |-> "healthy",
                 message |-> "Using fallback data",
                 mode |-> "fallback"])

\* a plausible slip: the demo list is the list of the live backend
GetCities_AfterDelay_BackendList(p) ==
    IF p
    THEN Return([success |-> TRUE, cities |-> BackendCities,
                 message |-> "Demo data loaded"])
    ELSE Fetch("GET", "cities", NoCity)

GetCities_AfterDelay(p) ==
    IF p
    THEN Return([success |-> TRUE, cities |-> FALLBACK_DATA.cities,
                 message |-> "Demo data loaded"])
    ELSE Fetch("GET", "cities", NoCity)

GetCities_OnSettled(resp) ==
    IF FetchSucceeds(resp)
    THEN Return(resp.body)
    ELSE Return([success |-> TRUE, cities |-> FALLBACK_DATA.cities,
                 message |-> "Fallback cities loaded"])

\* a plausible slip: the production branch is missing, the call always fetches
GetCityData_AfterDelay_AlwaysLive(p, cityName) ==
    Fetch("GET", "city", cityName)

GetCityData_AfterDelay(p, cityName) ==
    IF p
    THEN LET cityData == Lookup(FALLBACK_DATA.cityData, cityName)
         IN  IF Truthy(cityData)
             THEN Return([success |-> TRUE, data |-> cityData,
                          message |-> "Demo data for " \o cityName])
             ELSE Throw("No demo data available for " \o cityName)
    ELSE Fetch("GET", "city", cityName)

\* a plausible slip: the failed fetch is not caught, no fallback is looked up
GetCityData_OnSettled_NoFallback(cityName, resp) ==
    IF FetchSucceeds(resp)
    THEN Return(resp.body)
    ELSE Throw("Network error")

GetCityData_OnSettled(cityName, resp) ==
    IF FetchSucceeds(resp)
    THEN Return(resp.body)
    ELSE LET cityData == Lookup(FALLBACK_DATA.cityData, cityName)
         IN  IF Truthy(cityData)
             THEN Return([success |-> TRUE, data |-> cityData,
                          message |-> "Fallback data for " \o cityName])
             ELSE Throw("No fallback data available for " \o cityName)

Predict_AfterDelay(p, cityName) ==
    LET cityData == Lookup(FALLBACK_DATA.cityData, cityName)
    IN  IF p /\ Truthy(cityData)
        THEN Return([success |-> TRUE,
                     prediction |-> Lookup(cityData, "prediction"),
                     message |-> "Demo prediction for " \o cityName])
        ELSE Fetch("POST", "predict", cityName)

Predict_OnSettled(cityName, resp) ==
    IF FetchSucceeds(resp)
    THEN Return(resp.body)
    ELSE LET cityData == Lookup(FALLBACK_DATA.cityData, cityName)
         IN  IF Truthy(cityData)
             THEN Return([success |-> TRUE,
                          prediction |-> Lookup(cityData, "prediction"),
                          message |-> "Fallback prediction for " \o cityName])
             ELSE Throw("No fallback prediction for " \o cityName)

AfterDelay(op, p, cityName) ==
    CASE op = "getHealth" -> GetHealth_AfterDelay(p)
      [] op = "getCities" -> GetCities_AfterDelay(p)
      [] op = "getCityData" -> GetCityData_AfterDelay(p, cityName)
      [] op = "predict" -> Predict_AfterDelay(p, cityName)

OnSettled(op, cityName, resp) ==
    CASE op = "getHealth" -> GetHealth_OnSettled(resp)
      [] op = "getCities" -> GetCities_OnSettled(resp)
      [] op = "getCityData" -> GetCityData_OnSettled(cityName, resp)
      [] op = "predict" -> Predict_OnSettled(cityName, resp)

Endpoint(op) ==
    CASE op = "getHealth" -> "health"
      [] op = "getCities" -> "cities"
      [] op = "getCityData" -> "city"
      [] op = "predict" -> "predict"

NoResult == [kind |-> "none"]

PcOf(r) == IF r.kind = "return" THEN "returned" ELSE "thrown"

\* a caller invokes an operation of the service; the delay timer is armed
SvcCall(op, cityName) ==
    /\ s_pc \in {"idle", "returned", "thrown"}
    /\ s_pc' = "delay"
    /\ s_op' = op
    /\ s_city' = cityName
    /\ s_requests' = << >>
    /\ s_response' = NoResponse
    /\ s_result' = NoResult
    /\ UNCHANGED prod

\* the delay timer fires: the call answers from FALLBACK_DATA or issues its fetch
SvcDelayElapsed ==
    /\ s_pc = "delay"
    /\ LET r == AfterDelay(s_op, prod, s_city)
       IN  IF r.kind = "fetch"
           THEN /\ s_pc' = "fetching"
                /\ s_requests' = Append(s_requests, r.request)
                /\ UNCHANGED s_result
           ELSE /\ s_pc' = PcOf(r)
                /\ s_result' = r
                /\ UNCHANGED s_requests
    /\ UNCHANGED <<prod, s_op, s_city, s_response>>

\* the fetch settles, in any of the ways it can: the call returns the live
\* payload or falls back
SvcFetchSettles ==
    /\ s_pc = "fetching"
    /\ \E resp \in Responses(Endpoint(s_op), s_city) :
          /\ s_response' = resp
          /\ LET r == OnSettled(s_op, s_city, resp)
             IN  /\ s_pc' = PcOf(r)
                 /\ s_result' = r
    /\ UNCHANGED <<prod, s_op, s_city, s_requests>>

SvcIdle ==
    /\ s_pc = "idle"
    /\ s_op = "none"
    /\ s_city = NoCity
    /\ s_requests = << >>
    /\ s_response = NoResponse
    /\ s_result = NoResult


-----------------------------------------------------------------------------
(* airQualityAPI, the axios client: api.get / api.post inside try / catch   *)

\* the request is aborted by the 10000 ms timeout of the axios instance
TimedOut == [kind |-> "timeout", ok |-> FALSE, body |-> null]

ApiResponses(endpoint, c) == Responses(endpoint, c) \cup {TimedOut}

ApiErrorMessage(op, cityName) ==
    CASE op = "getHealth" -> "Servidor no disponible"
      [] op = "getCities" -> "Error obteniendo ciudades"
      [] op = "getCityData" -> "Error obteniendo datos de " \o cityName
      [] op = "predict" -> "Error prediciendo para " \o cityName

\* axios resolves for a 2xx status and rejects otherwise; response.data of a
\* body that is not JSON is the body as it came
Api_OnSettled(op, cityName, resp) ==
    IF resp.kind = "http" /\ resp.ok
    THEN Return(resp.body)
    ELSE Throw(ApiErrorMessage(op, cityName))

ApiRequest(op, cityName) ==
    [method |-> IF op = "predict" THEN "POST" ELSE "GET",
     endpoint |-> Endpoint(op), city |-> cityName]

\* a caller invokes an operation: api.get / api.post sends its request
ApiCall(op, cityName) ==
    /\ api_pc \in {"idle", "returned", "thrown"}
    /\ api_pc' = "pending"
    /\ api_op' = op
    /\ api_city' = cityName
    /\ api_requests' = << ApiRequest(op, cityName) >>
    /\ api_result' = NoResult

\* a plausible slip: a failed request is sent once more before giving up
ApiSettles_RetryOnce ==
    /\ api_pc = "pending"
    /\ \E resp \in ApiResponses(Endpoint(api_op), api_city) :
          LET r == Api_OnSettled(api_op, api_city, resp)
          IN  IF r.kind = "throw" /\ Len(api_requests) < 2
              THEN /\ api_requests' = Append(api_requests, ApiRequest(api_op, api_city))
                   /\ UNCHANGED <<api_pc, api_result>>
              ELSE /\ api_pc' = PcOf(r)
                   /\ api_result' = r
                   /\ UNCHANGED api_requests
    /\ UNCHANGED <<api_op, api_city>>

\* the request settles: the call returns response.data or throws its Error
ApiSettles ==
    /\ api_pc = "pending"
    /\ \E resp \in ApiResponses(Endpoint(api_op), api_city) :
          LET r == Api_OnSettled(api_op, api_city, resp)
          IN  /\ api_pc' = PcOf(r)
              /\ api_result' = r
    /\ UNCHANGED <<api_op, api_city, api_requests>>

AxiosIdle ==
    /\ api_pc = "idle"
    /\ api_op = "none"
    /\ api_city = NoCity
    /\ api_requests = << >>
    /\ api_result = NoResult


-----------------------------------------------------------------------------
(* App.getAirQualityRecommendation; pm25Value is in hundredths *)

\* a plausible slip: the first threshold is open at its boundary
GetAirQualityRecommendation_OpenAt12(v) ==
    IF v < 1200 THEN
        [level |-> "GOOD", color |-> "text-green-300",
         recommendation |-> "Air quality is excellent. Perfect for outdoor activities and exercise."]
    ELSE IF v <= 3500 THEN
        [level |-> "MODERATE", color |-> "text-yellow-300",
         recommendation |-> "Air quality is acceptable. Sensitive individuals should limit prolonged outdoor activity."]
    ELSE IF v <= 5500 THEN
        [level |-> "UNHEALTHY FOR SENSITIVE", color |-> "text-orange-300",
         recommendation |-> "Sensitive groups should avoid outdoor activities. Others can exercise with caution."]
    ELSE IF v <= 15000 THEN
        [level |-> "UNHEALTHY", color |-> "text-red-300",
         recommendation |-> "Everyone should avoid outdoor activities. Close windows and use air purifiers."]
    ELSE
        [level |-> "HAZARDOUS", color |-> "text-red-400",
         recommendation |-> "Health emergency! Stay indoors with windows closed. Avoid all outdoor activities."]

\* a plausible slip: two branches of the chain return each other's level
GetAirQualityRecommendation_Swapped(v) ==
    IF v <= 1200 THEN
        [level |-> "GOOD", color |-> "text-green-300",
         recommendation |-> "Air quality is excellent. Perfect for outdoor activities and exercise."]
    ELSE IF v <= 3500 THEN
        [level |-> "MODERATE", color |-> "text-yellow-300",
         recommendation |-> "Air quality is acceptable. Sensitive individuals should limit prolonged outdoor activity."]
    ELSE IF v <= 5500 THEN
        [level |-> "UNHEALTHY", color |-> "text-red-300",
         recommendation |-> "Everyone should avoid outdoor activities. Close windows and use air purifiers."]
    ELSE IF v <= 15000 THEN
        [level |-> "UNHEALTHY FOR SENSITIVE", color |-> "text-orange-300",
         recommendation |-> "Sensitive groups should avoid outdoor activities. Others can exercise with caution."]
    ELSE
        [level |-> "HAZARDOUS", color |-> "text-red-400",
         recommendation |-> "Health emergency! Stay indoors with windows closed. Avoid all outdoor activities."]

getAirQualityRecommendation(v) ==
    IF v <= 1200 THEN
        [level |-> "GOOD", color |-> "text-green-300",
         recommendation |-> "Air quality is excellent. Perfect for outdoor activities and exercise."]
    ELSE IF v <= 3500 THEN
        [level |-> "MODERATE", color |-> "text-yellow-300",
         recommendation |-> "Air quality is acceptable. Sensitive individuals should limit prolonged outdoor activity."]
    ELSE IF v <= 5500 THEN
        [level |-> "UNHEALTHY FOR SENSITIVE", color |-> "text-orange-300",
         recommendation |-> "Sensitive groups should avoid outdoor activities. Others can exercise with caution."]
    ELSE IF v <= 15000 THEN
        [level |-> "UNHEALTHY", color |-> "text-red-300",
         recommendation |-> "Everyone should avoid outdoor activities. Close windows and use air purifiers."]
    ELSE
        [level |-> "HAZARDOUS", color |-> "text-red-400",
         recommendation |-> "Health emergency! Stay indoors with windows closed. Avoid all outdoor activities."]

NoLevel == "none"

\* the PM2.5 inputs classified one at a time: every hundredth up to MaxPm25
Pm25Inputs == 0 .. MaxPm25

\* the inputs compared in pairs: each multiple of GridStep and its successor
Pm25Grid == {v \in Pm25Inputs : v % GridStep \in {0, 1}}

\* getAirQualityRecommendation(pm25Value) is evaluated
Classify ==
    /\ c_pc = "input"
    /\ level' = getAirQualityRecommendation(pm25Value).level
    /\ c_pc' = "first"
    /\ UNCHANGED <<pm25Value, pm25Other, levelOther>>

\* getAirQualityRecommendation(pm25Other) is evaluated
ClassifyOther ==
    /\ c_pc = "first"
    /\ levelOther' = getAirQualityRecommendation(pm25Other).level
    /\ c_pc' = "done"
    /\ UNCHANGED <<pm25Value, level, pm25Other>>

ClassIdle ==
    /\ c_pc = "input"
    /\ pm25Value = 0
    /\ pm25Other = 0
    /\ level = NoLevel
    /\ levelOther = NoLevel


-----------------------------------------------------------------------------
(* useAirQualityData, the widget controller *)

\* a JavaScript string held where null is also possible
Str(s) == [str |-> s]

DefaultCity == "Ciudad de México"

\* the list loadCities stores when its request fails
DefaultCities == << [id |-> "1", name |-> "Ciudad de México"],
                    [id |-> "2", name |-> "Nueva York"],
                    [id |-> "3", name |-> "Los Ángeles"],
                    [id |-> "4", name |-> "Madrid"],
                    [id |-> "5", name |-> "Londres"] >>

\* the bundle loadCityData stores when a load fails
SubstituteData ==
    [current |-> [pm25 |-> 2500, aqi |-> 75, quality_level |-> "MODERADA",
                  weather |-> [temperature |-> 22, humidity |-> 60]],
     prediction |-> [predicted_pm25 |-> 2350, prediction_date |-> TodayISO,
                     confidence |-> 85]]

\* safeFetch once its fetch has settled: the parsed body, or the error rethrown
\* (the message of a non-OK response is `HTTP ${status}: ${statusText}`; 500
\* stands for every non-OK status)
SafeFetch_OnSettled(resp) ==
    IF resp.kind = "rejected" THEN Throw("Failed to fetch")
    ELSE IF ~resp.ok THEN Throw("HTTP 500: Internal Server Error")
    ELSE IF resp.body = BadJson THEN Throw("Unexpected token in JSON")
    ELSE Return(resp.body)

\* obj.field is present and truthy, for a field holding a boolean
IsTrue(obj, field) == field \in DOMAIN obj /\ obj[field] = TRUE

\* obj.field is present and truthy, for a field holding an object or a list
IsSet(obj, field) == field \in DOMAIN obj /\ Truthy(obj[field])

\* checkBackend: the value it passes to setBackendOnline
CheckBackend_OnSettled(resp) ==
    LET r == SafeFetch_OnSettled(resp)
    IN  IF r.kind = "return"
        THEN "status" \in DOMAIN r.value /\ r.value.status = "healthy"
        ELSE FALSE

\* loadCities: the value of cities after it, given the value before it
LoadCities_OnSettled(resp, before) ==
    LET r == SafeFetch_OnSettled(resp)
    IN  IF r.kind = "return"
        THEN IF IsTrue(r.value, "success") /\ IsSet(r.value, "cities")
             THEN r.value.cities
             ELSE before
        ELSE DefaultCities

\* a plausible slip: a failed load stores no substitute bundle
LoadCityData_OnSettled_NoSubstitute(cityName, resp) ==
    LET r == SafeFetch_OnSettled(resp)
        ok == r.kind = "return" /\ IsTrue(r.value, "success") /\ IsSet(r.value, "data")
    IN  IF ok
        THEN [failed |-> FALSE, data |-> r.value.data, error |-> [keep |-> TRUE]]
        ELSE [failed |-> TRUE, data |-> null,
              error |-> Str("Error cargando datos de " \o cityName)]

\* loadCityData once its safeFetch has settled: what it passes to setData and
\* setError, or "keep" for a setter it does not call
LoadCityData_OnSettled(cityName, resp) ==
    LET r == SafeFetch_OnSettled(resp)
        ok == r.kind = "return" /\ IsTrue(r.value, "success") /\ IsSet(r.value, "data")
        message ==
            IF r.kind = "throw" THEN r.message
            ELSE IF "message" \in DOMAIN r.value THEN r.value.message
            ELSE "No data available"
    IN  IF ok
        THEN [failed |-> FALSE, data |-> r.value.data, error |-> [keep |-> TRUE]]
        ELSE [failed |-> TRUE, data |-> SubstituteData,
              error |-> Str("Error cargando datos de " \o cityName \o ": " \o message)]

CityNamesOf(list) == {list[i].name : i \in 1 .. Len(list)}

RemoveAt(seq, i) == SubSeq(seq, 1, i - 1) \o SubSeq(seq, i + 1, Len(seq))

Request(endpoint, cityName) == [endpoint |-> endpoint, city |-> cityName]

\* the ways the backend, in its present condition, settles a pending request
BackendResponses(endpoint, cityName) ==
    CASE backend = "down" -> {Rejected}
      [] backend = "silent" -> {}
      [] backend = "up" -> Responses(endpoint, cityName) \ {Rejected}

\* the backend process is started, stopped, or stops answering
BackendChanges(mode) ==
    /\ mode \in {"up", "down", "silent"}
    /\ mode # backend
    /\ backend' = mode
    /\ UNCHANGED <<w_mounted, w_data, w_cities, w_selectedCity, w_loading, w_error,
                   w_backendOnline, w_inflight, w_userLoads>>

\* a plausible slip: the selectedCity effect is missing, only initialize() runs
Mount_InitializeOnly ==
    /\ ~w_mounted
    /\ w_mounted' = TRUE
    /\ w_inflight' = Append(w_inflight, Request("health", NoCity))
    /\ UNCHANGED <<w_data, w_cities, w_selectedCity, w_loading, w_error,
                   w_backendOnline, w_userLoads, backend>>

\* the first render's effects: initialize() reaches checkBackend's fetch, and
\* the selectedCity effect runs loadCityData(selectedCity) up to its fetch
Mount ==
    /\ ~w_mounted
    /\ w_mounted' = TRUE
    /\ w_loading' = TRUE
    /\ w_error' = null
    /\ w_inflight' = w_inflight \o << Request("health", NoCity),
                                      Request("city", w_selectedCity) >>
    /\ UNCHANGED <<w_data, w_cities, w_selectedCity, w_backendOnline, w_userLoads, backend>>

\* checkBackend's fetch settles; initialize() goes on to loadCities' fetch
HealthSettles(i, resp) ==
    /\ i \in 1 .. Len(w_inflight)
    /\ w_inflight[i].endpoint = "health"
    /\ resp \in BackendResponses("health", NoCity)
    /\ w_backendOnline' = CheckBackend_OnSettled(resp)
    /\ w_inflight' = Append(RemoveAt(w_inflight, i), Request("cities", NoCity))
    /\ UNCHANGED <<w_mounted, w_data, w_cities, w_selectedCity, w_loading, w_error,
                   w_userLoads, backend>>

\* loadCities' fetch settles; initialize() goes on to loadCityData(selectedCity)
\* with the selectedCity of the first render, up to its fetch
CitiesSettle(i, resp) ==
    /\ i \in 1 .. Len(w_inflight)
    /\ w_inflight[i].endpoint = "cities"
    /\ resp \in BackendResponses("cities", NoCity)
    /\ w_cities' = LoadCities_OnSettled(resp, w_cities)
    /\ w_loading' = TRUE
    /\ w_error' = null
    /\ w_inflight' = Append(RemoveAt(w_inflight, i), Request("city", DefaultCity))
    /\ UNCHANGED <<w_mounted, w_data, w_selectedCity, w_backendOnline, w_userLoads, backend>>

\* loadCityData's fetch settles: try / catch / finally
CityDataSettles(i, resp) ==
    /\ i \in 1 .. Len(w_inflight)
    /\ w_inflight[i].endpoint = "city"
    /\ resp \in BackendResponses("city", w_inflight[i].city)
    /\ LET out == LoadCityData_OnSettled(w_inflight[i].city, resp)
       IN  /\ w_data' = out.data
           /\ w_error' = IF out.failed THEN out.error ELSE w_error
    /\ w_loading' = FALSE
    /\ w_inflight' = RemoveAt(w_inflight, i)
    /\ UNCHANGED <<w_mounted, w_cities, w_selectedCity, w_backendOnline, w_userLoads, backend>>

\* what AirQualityWidget renders: the spinner, the blocking error, or the cards
View ==
    IF w_loading THEN "loading"
    ELSE IF w_error # null /\ w_data = null THEN "error"
    ELSE "main"

\* the Confianza / AI Confidence cell: data.prediction?.confidence ?
\* `${(confidence * 100).toFixed(0)}%` : 'N/A'.  Confidence is kept in
\* hundredths, so the percentage printed is the number kept
ConfidenceText(data) ==
    IF /\ "prediction" \in DOMAIN data
       /\ "confidence" \in DOMAIN data.prediction
       /\ data.prediction.confidence # 0
    THEN [percent |-> data.prediction.confidence]
    ELSE [text |-> "N/A"]

\* a city button is clicked: setSelectedCity(name), and the selectedCity effect
\* runs loadCityData(name) up to its fetch
SelectCity(cityName) ==
    /\ w_mounted
    /\ View = "main"
    /\ cityName \in CityNamesOf(w_cities)
    /\ cityName # w_selectedCity
    /\ w_userLoads < MaxUserLoads
    /\ w_userLoads' = w_userLoads + 1
    /\ w_selectedCity' = cityName
    /\ w_loading' = TRUE
    /\ w_error' = null
    /\ w_inflight' = Append(w_inflight, Request("city", cityName))
    /\ UNCHANGED <<w_mounted, w_data, w_cities, w_backendOnline, backend>>

\* Reintentar or Actualizar is clicked: refresh() runs loadCityData(selectedCity)
Refresh ==
    /\ w_mounted
    /\ View = "error" \/ (View = "main" /\ w_data # null)
    /\ w_userLoads < MaxUserLoads
    /\ w_userLoads' = w_userLoads + 1
    /\ w_loading' = TRUE
    /\ w_error' = null
    /\ w_inflight' = Append(w_inflight, Request("city", w_selectedCity))
    /\ UNCHANGED <<w_mounted, w_data, w_cities, w_selectedCity, w_backendOnline, backend>>

WidgetIdle ==
    /\ w_mounted = FALSE
    /\ w_data = null
    /\ w_cities = << >>
    /\ w_selectedCity = DefaultCity
    /\ w_loading = TRUE
    /\ w_error = null
    /\ w_backendOnline = FALSE
    /\ w_inflight = << >>
    /\ w_userLoads = 0
    /\ backend = "up"

-----------------------------------------------------------------------------
(* App: checkBackendStatus, loadCityData and handleCityChange, calling the  *)
(* fallback-enabled service.  A call of the service is in a_calls from the  *)
(* moment it is made until App's continuation of it has run.  The names    *)
(* are part_004's; part_005 writes backendStatus as 'Conectando',           *)
(* 'Funcionando' and 'Desconectado'.                                        *)

\* selected is the selectedCity of the render whose checkBackendStatus made
\* the call (the value its closure holds)
AppCall(op, cityName, selected) ==
    [op |-> op, city |-> cityName, stage |-> "delay", selected |-> selected]

\* health.status === "healthy"
HealthIsHealthy(r) ==
    r.kind = "return" /\ "status" \in DOMAIN r.value /\ r.value.status = "healthy"

\* checkBackendStatus once getHealth has completed: the value of backendStatus
CheckBackendStatus_OnHealth(r, before) ==
    IF r.kind = "throw" THEN "Disconnected"
    ELSE IF HealthIsHealthy(r) THEN "Working"
    ELSE before

\* a plausible slip: a failed load clears the stored bundle
App_LoadCityData_OnResult_Clears(r, before) ==
    IF r.kind = "return" /\ IsTrue(r.value, "success")
    THEN Lookup(r.value, "data")
    ELSE null

\* loadCityData once getCityData has completed: the value of airQualityData
\* (a failure is only written to the console)
App_LoadCityData_OnResult(r, before) ==
    IF r.kind = "return" /\ IsTrue(r.value, "success")
    THEN Lookup(r.value, "data")
    ELSE before

\* App's continuation of the call a_calls[i], which has completed with r
AppContinue(i, r) ==
    LET call == a_calls[i]
        rest == RemoveAt(a_calls, i)
    IN  CASE call.op = "getHealth" ->
               /\ a_backendStatus' = CheckBackendStatus_OnHealth(r, a_backendStatus)
               /\ a_calls' = IF HealthIsHealthy(r)
                             THEN Append(rest, AppCall("getCities", NoCity, call.selected))
                             ELSE rest
               /\ UNCHANGED <<a_mounted, a_loading, a_airQualityData, a_cities,
                              a_selectedCity, a_loadingCityData, a_userLoads>>
          [] call.op = "getCities" ->
               IF r.kind = "throw"
               THEN /\ a_backendStatus' = "Disconnected"
                    /\ a_calls' = rest
                    /\ UNCHANGED <<a_mounted, a_loading, a_airQualityData, a_cities,
                                   a_selectedCity, a_loadingCityData, a_userLoads>>
               ELSE IF IsTrue(r.value, "success")
               THEN /\ a_cities' = r.value.cities
                    /\ a_loadingCityData' = TRUE
                    /\ a_calls' = Append(rest, AppCall("getCityData", call.selected,
                                                     call.selected))
                    /\ UNCHANGED <<a_mounted, a_loading, a_backendStatus,
                                   a_airQualityData, a_selectedCity, a_userLoads>>
               ELSE /\ a_calls' = rest
                    /\ UNCHANGED <<a_mounted, a_loading, a_backendStatus,
                                   a_airQualityData, a_cities, a_selectedCity,
                                   a_loadingCityData, a_userLoads>>
          [] call.op = "getCityData" ->
               /\ a_airQualityData' = App_LoadCityData_OnResult(r, a_airQualityData)
               /\ a_loadingCityData' = FALSE
               /\ a_calls' = rest
               /\ UNCHANGED <<a_mounted, a_loading, a_backendStatus, a_cities,
                              a_selectedCity, a_userLoads>>

\* the badge under the PM2.5 value: airQualityData.current?.quality_level || "N/A"
QualityBadge(data) ==
    IF "current" \in DOMAIN data /\ "quality_level" \in DOMAIN data.current
    THEN data.current.quality_level
    ELSE "N/A"

\* the mount effect: checkBackendStatus() runs up to its call of getHealth
AppMount ==
    /\ ~a_mounted
    /\ a_mounted' = TRUE
    /\ a_calls' = Append(a_calls, AppCall("getHealth", NoCity, a_selectedCity))
    /\ UNCHANGED <<a_loading, a_backendStatus, a_airQualityData, a_cities,
                   a_selectedCity, a_loadingCityData, a_userLoads, a_variant>>

\* Actualizar Datos is clicked (part_005 only; the button is always rendered
\* and never disabled): checkBackendStatus() runs up to its call of getHealth
AppRefresh ==
    /\ a_mounted
    /\ a_variant = "part_005"
    /\ a_userLoads < MaxUserLoads
    /\ a_userLoads' = a_userLoads + 1
    /\ a_calls' = Append(a_calls, AppCall("getHealth", NoCity, a_selectedCity))
    /\ UNCHANGED <<a_mounted, a_loading, a_backendStatus, a_airQualityData, a_cities,
                   a_selectedCity, a_loadingCityData, a_variant>>

\* the 500 ms timer of the mount effect fires: setLoading(false)
AppFadeIn ==
    /\ a_mounted
    /\ a_loading
    /\ a_loading' = FALSE
    /\ UNCHANGED <<a_mounted, a_backendStatus, a_airQualityData, a_cities,
                   a_selectedCity, a_loadingCityData, a_calls, a_userLoads, a_variant>>

\* the delay timer of a call fires: the call issues its fetch, or it answers
\* from FALLBACK_DATA and App's continuation runs
AppDelayElapsed(i) ==
    /\ i \in 1 .. Len(a_calls)
    /\ a_calls[i].stage = "delay"
    /\ LET r == AfterDelay(a_calls[i].op, prod, a_calls[i].city)
       IN  IF r.kind = "fetch"
           THEN /\ a_calls' = [a_calls EXCEPT ![i].stage = "fetching"]
                /\ UNCHANGED <<a_mounted, a_loading, a_backendStatus, a_airQualityData,
                               a_cities, a_selectedCity, a_loadingCityData, a_userLoads>>
           ELSE AppContinue(i, r)
    /\ UNCHANGED a_variant

\* the fetch of a call settles: the call returns or throws and App's
\* continuation runs
AppFetchSettles(i, resp) ==
    /\ i \in 1 .. Len(a_calls)
    /\ a_calls[i].stage = "fetching"
    /\ resp \in Responses(Endpoint(a_calls[i].op), a_calls[i].city)
    /\ AppContinue(i, OnSettled(a_calls[i].op, a_calls[i].city, resp))
    /\ UNCHANGED a_variant

\* a plausible slip: the city buttons are not disabled while a load is pending
HandleCityChange_NeverDisabled(cityName) ==
    /\ a_mounted
    /\ cityName \in CityNamesOf(a_cities)
    /\ a_userLoads < MaxUserLoads
    /\ a_userLoads' = a_userLoads + 1
    /\ a_selectedCity' = cityName
    /\ a_loadingCityData' = TRUE
    /\ a_calls' = Append(a_calls, AppCall("getCityData", cityName, cityName))
    /\ UNCHANGED <<a_mounted, a_loading, a_backendStatus, a_airQualityData, a_cities,
                   a_variant>>

\* a city button is clicked (the buttons are rendered once cities is not
\* empty and are disabled while loadingCityData): setSelectedCity(cityName)
\* and loadCityData(cityName) up to its call of getCityData
HandleCityChange(cityName) ==
    /\ a_mounted
    /\ cityName \in CityNamesOf(a_cities)
    /\ ~a_loadingCityData
    /\ a_userLoads < MaxUserLoads
    /\ a_userLoads' = a_userLoads + 1
    /\ a_selectedCity' = cityName
    /\ a_loadingCityData' = TRUE
    /\ a_calls' = Append(a_calls, AppCall("getCityData", cityName, cityName))
    /\ UNCHANGED <<a_mounted, a_loading, a_backendStatus, a_airQualityData, a_cities,
                   a_variant>>

AppIdle ==
    /\ a_mounted = FALSE
    /\ a_loading = TRUE
    /\ a_backendStatus = "Connecting"
    /\ a_airQualityData = null
    /\ a_cities = << >>
    /\ a_selectedCity = DefaultCity
    /\ a_loadingCityData = FALSE
    /\ a_calls = << >>
    /\ a_userLoads = 0
    /\ a_variant = "part_004"


-----------------------------------------------------------------------------
(* useServerHealth: checkHealth at mount and on a 30 s interval.  The hook   *)
(* imports airQualityAPI from '../services/airQualityAPI', which is either  *)
(* of the two clients, so getHealth completes in any way either of them can *)

GetHealthOutcomes ==
    {Api_OnSettled("getHealth", NoCity, resp) : resp \in ApiResponses("health", NoCity)}
        \cup {OnSettled("getHealth", NoCity, resp) : resp \in Responses("health", NoCity)}
        \cup {AfterDelay("getHealth", TRUE, NoCity)}

\* the effect runs: checkHealth() up to its await, and setInterval
HealthMount ==
    /\ h_state = "init"
    /\ h_state' = "mounted"
    /\ h_interval' = TRUE
    /\ h_pending' = h_pending + 1
    /\ h_started' = h_started + 1
    /\ UNCHANGED <<h_isHealthy, h_loading>>

\* the interval fires: checkHealth() up to its await
HealthTick ==
    /\ h_interval
    /\ h_started < MaxChecks
    /\ h_pending' = h_pending + 1
    /\ h_started' = h_started + 1
    /\ UNCHANGED <<h_state, h_isHealthy, h_loading, h_interval>>

\* getHealth completes with r: try / catch / finally of checkHealth (the
\* setters do nothing once the component is unmounted)
HealthCheckSettles(r) ==
    /\ h_pending > 0
    /\ r \in GetHealthOutcomes
    /\ h_pending' = h_pending - 1
    /\ IF h_state = "mounted"
       THEN /\ h_isHealthy' = (r.kind = "return")
            /\ h_loading' = FALSE
       ELSE UNCHANGED <<h_isHealthy, h_loading>>
    /\ UNCHANGED <<h_state, h_interval, h_started>>

\* a plausible slip: the effect returns no cleanup, the interval stays armed
HealthUnmount_NoCleanup ==
    /\ h_state = "mounted"
    /\ h_state' = "unmounted"
    /\ UNCHANGED <<h_isHealthy, h_loading, h_interval, h_pending, h_started>>

\* the component unmounts: the cleanup runs clearInterval(interval)
HealthUnmount ==
    /\ h_state = "mounted"
    /\ h_state' = "unmounted"
    /\ h_interval' = FALSE
    /\ UNCHANGED <<h_isHealthy, h_loading, h_pending, h_started>>

HealthIdle ==
    /\ h_state = "init"
    /\ h_isHealthy = FALSE
    /\ h_loading = TRUE
    /\ h_interval = FALSE
    /\ h_pending = 0
    /\ h_started = 0


-----------------------------------------------------------------------------
(* Specifications *)

\* the widget controller against a backend that comes and goes
Init ==
    /\ WidgetIdle /\ SvcIdle /\ ClassIdle /\ AxiosIdle /\ AppIdle /\ HealthIdle
    /\ prod = FALSE

Settles ==
    \E i \in 1 .. Len(w_inflight) :
       \E resp \in BackendResponses(w_inflight[i].endpoint, w_inflight[i].city) :
          \/ HealthSettles(i, resp)
          \/ CitiesSettle(i, resp)
          \/ CityDataSettles(i, resp)

Next ==
    \/ Mount /\ UNCHANGED <<svcVars, classVars, axiosVars, appVars, healthVars>>
    \/ (\E i \in 1 .. Len(w_inflight) :
          \E resp \in BackendResponses("health", NoCity) : HealthSettles(i, resp))
          /\ UNCHANGED <<svcVars, classVars, axiosVars, appVars, healthVars>>
    \/ (\E i \in 1 .. Len(w_inflight) :
          \E resp \in BackendResponses("cities", NoCity) : CitiesSettle(i, resp))
          /\ UNCHANGED <<svcVars, classVars, axiosVars, appVars, healthVars>>
    \/ (\E i \in 1 .. Len(w_inflight) :
          \E resp \in BackendResponses("city", w_inflight[i].city) : CityDataSettles(i, resp))
          /\ UNCHANGED <<svcVars, classVars, axiosVars, appVars, healthVars>>
    \/ (\E cityName \in CityNamesOf(w_cities) : SelectCity(cityName))
          /\ UNCHANGED <<svcVars, classVars, axiosVars, appVars, healthVars>>
    \/ Refresh /\ UNCHANGED <<svcVars, classVars, axiosVars, appVars, healthVars>>
    \/ (\E mode \in {"up", "down", "silent"} : BackendChanges(mode))
          /\ UNCHANGED <<svcVars, classVars, axiosVars, appVars, healthVars>>

Spec == Init /\ [][Next]_vars

\* what the code's scheduling guarantees: the effects of the first render run,
\* and a request that the backend is again and again in a condition to answer
\* (it is up, or it is down and the connection is refused) does get settled
\* and its continuation runs.  Nothing settles a request while the backend is
\* silent: fetch is given no abort signal, and its timeout option is not one
\* that fetch reads.
Fairness ==
    /\ WF_vars(Mount /\ UNCHANGED <<svcVars, classVars, axiosVars, appVars, healthVars>>)
    /\ SF_vars(Settles /\ UNCHANGED <<svcVars, classVars, axiosVars, appVars, healthVars>>)

FairSpec == Spec /\ Fairness

\* the fallback-enabled service, called with every operation and city name
SvcInit ==
    /\ WidgetIdle /\ SvcIdle /\ ClassIdle /\ AxiosIdle /\ AppIdle /\ HealthIdle
    /\ prod \in BOOLEAN

SvcNext ==
    \/ (\E op \in {"getHealth", "getCities"} : SvcCall(op, NoCity))
          /\ UNCHANGED <<widgetVars, classVars, axiosVars, appVars, healthVars>>
    \/ (\E op \in {"getCityData", "predict"} :
          \E cityName \in CityNames : SvcCall(op, cityName))
          /\ UNCHANGED <<widgetVars, classVars, axiosVars, appVars, healthVars>>
    \/ SvcDelayElapsed /\ UNCHANGED <<widgetVars, classVars, axiosVars, appVars, healthVars>>
    \/ SvcFetchSettles /\ UNCHANGED <<widgetVars, classVars, axiosVars, appVars, healthVars>>

SvcSpec == SvcInit /\ [][SvcNext]_vars

\* the fallback-enabled service and the axios client, side by side
ClientNext ==
    \/ (\E op \in {"getHealth", "getCities"} : SvcCall(op, NoCity))
          /\ UNCHANGED <<widgetVars, classVars, axiosVars, appVars, healthVars>>
    \/ (\E op \in {"getCityData", "predict"} :
          \E cityName \in ClientCityNames : SvcCall(op, cityName))
          /\ UNCHANGED <<widgetVars, classVars, axiosVars, appVars, healthVars>>
    \/ SvcDelayElapsed /\ UNCHANGED <<widgetVars, classVars, axiosVars, appVars, healthVars>>
    \/ SvcFetchSettles /\ UNCHANGED <<widgetVars, classVars, axiosVars, appVars, healthVars>>
    \/ (\E op \in {"getHealth", "getCities"} : ApiCall(op, NoCity))
          /\ UNCHANGED <<svcVars, widgetVars, classVars, appVars, healthVars>>
    \/ (\E op \in {"getCityData", "predict"} :
          \E cityName \in ClientCityNames : ApiCall(op, cityName))
          /\ UNCHANGED <<svcVars, widgetVars, classVars, appVars, healthVars>>
    \/ ApiSettles /\ UNCHANGED <<svcVars, widgetVars, classVars, appVars, healthVars>>

ClientSpec == SvcInit /\ [][ClientNext]_vars

\* App on top of the fallback-enabled service, in either build
AppStart ==
    /\ a_mounted = FALSE
    /\ a_loading = TRUE
    /\ a_backendStatus = "Connecting"
    /\ a_airQualityData = null
    /\ a_cities = << >>
    /\ a_selectedCity = DefaultCity
    /\ a_loadingCityData = FALSE
    /\ a_calls = << >>
    /\ a_userLoads = 0
    /\ a_variant \in {"part_004", "part_005"}

AppInit ==
    /\ WidgetIdle /\ SvcIdle /\ ClassIdle /\ AxiosIdle /\ AppStart /\ HealthIdle
    /\ prod \in BOOLEAN

AppNext ==
    \/ AppMount /\ UNCHANGED <<svcVars, widgetVars, classVars, axiosVars, healthVars>>
    \/ AppFadeIn /\ UNCHANGED <<svcVars, widgetVars, classVars, axiosVars, healthVars>>
    \/ (\E i \in 1 .. Len(a_calls) : AppDelayElapsed(i))
          /\ UNCHANGED <<svcVars, widgetVars, classVars, axiosVars, healthVars>>
    \/ (\E i \in 1 .. Len(a_calls) :
          \E resp \in Responses(Endpoint(a_calls[i].op), a_calls[i].city) :
             AppFetchSettles(i, resp))
          /\ UNCHANGED <<svcVars, widgetVars, classVars, axiosVars, healthVars>>
    \/ (\E cityName \in CityNamesOf(a_cities) : HandleCityChange(cityName))
          /\ UNCHANGED <<svcVars, widgetVars, classVars, axiosVars, healthVars>>
    \/ AppRefresh /\ UNCHANGED <<svcVars, widgetVars, classVars, axiosVars, healthVars>>

AppSpec == AppInit /\ [][AppNext]_vars

\* what the code's scheduling guarantees for App: the mount effect runs, a
\* delay timer that is armed fires, and a fetch settles one way or another
\* (the backend answers or the connection fails)
AppFairness ==
    /\ WF_vars(AppMount /\ UNCHANGED <<svcVars, widgetVars, classVars, axiosVars, healthVars>>)
    /\ WF_vars((\E i \in 1 .. Len(a_calls) : AppDelayElapsed(i))
                  /\ UNCHANGED <<svcVars, widgetVars, classVars, axiosVars, healthVars>>)
    /\ WF_vars((\E i \in 1 .. Len(a_calls) :
                  \E resp \in Responses(Endpoint(a_calls[i].op), a_calls[i].city) :
                     AppFetchSettles(i, resp))
                  /\ UNCHANGED <<svcVars, widgetVars, classVars, axiosVars, healthVars>>)

AppFairSpec == AppSpec /\ AppFairness

\* useServerHealth, mounted and unmounted, in either build
HealthInit ==
    /\ WidgetIdle /\ SvcIdle /\ ClassIdle /\ AxiosIdle /\ AppIdle /\ HealthIdle
    /\ prod \in BOOLEAN

HealthNext ==
    \/ HealthMount /\ UNCHANGED <<svcVars, widgetVars, classVars, axiosVars, appVars>>
    \/ HealthTick /\ UNCHANGED <<svcVars, widgetVars, classVars, axiosVars, appVars>>
    \/ (\E r \in GetHealthOutcomes : HealthCheckSettles(r))
          /\ UNCHANGED <<svcVars, widgetVars, classVars, axiosVars, appVars>>
    \/ HealthUnmount /\ UNCHANGED <<svcVars, widgetVars, classVars, axiosVars, appVars>>

HealthSpec == HealthInit /\ [][HealthNext]_vars

\* getAirQualityRecommendation applied to every input
ClassInit ==
    /\ WidgetIdle /\ SvcIdle /\ AxiosIdle /\ AppIdle /\ HealthIdle
    /\ prod = FALSE
    /\ c_pc = "input"
    /\ pm25Value \in Pm25Inputs
    /\ pm25Other = pm25Value
    /\ level = NoLevel
    /\ levelOther = NoLevel

ClassNext ==
    \/ Classify /\ UNCHANGED <<svcVars, widgetVars, axiosVars, appVars, healthVars>>
    \/ ClassifyOther /\ UNCHANGED <<svcVars, widgetVars, axiosVars, appVars, healthVars>>

ClassSpec == ClassInit /\ [][ClassNext]_vars

\* getAirQualityRecommendation applied to two inputs
PairInit ==
    /\ WidgetIdle /\ SvcIdle /\ AxiosIdle /\ AppIdle /\ HealthIdle
    /\ prod = FALSE
    /\ c_pc = "input"
    /\ pm25Value \in Pm25Grid
    /\ pm25Other \in Pm25Grid
    /\ level = NoLevel
    /\ levelOther = NoLevel

PairSpec == PairInit /\ [][ClassNext]_vars


-----------------------------------------------------------------------------
(* Properties *)

SvcDone == s_pc \in {"returned", "thrown"}

\* the network call failed: the request was rejected, or the status is not OK
FailedResponse(resp) == resp.kind = "rejected" \/ (resp.kind = "http" /\ ~resp.ok)

\* a CityDataBundle with every required reading present
Complete(b) ==
    /\ {"current", "prediction"} \subseteq DOMAIN b
    /\ {"pm25", "aqi", "quality_level", "weather"} \subseteq DOMAIN b.current
    /\ {"temperature", "humidity"} \subseteq DOMAIN b.current.weather
    /\ {"predicted_pm25", "prediction_date", "confidence"} \subseteq DOMAIN b.prediction

\* every value a load of the city can leave in data
ResultsFor(cityName) ==
    {LoadCityData_OnSettled(cityName, resp).data : resp \in Responses("city", cityName)}

\* C1: once every request of the widget controller has completed, the stored
\* data is a result of the selected city's request, whatever the order in
\* which the responses arrived: a response for a city selected earlier never
\* ends up as the stored data.
C1_StaleResponseDiscarded ==
    (w_mounted /\ w_inflight = << >>) => w_data \in ResultsFor(w_selectedCity)

\* C2: in live-preferred mode, when the network call of getCityData fails for
\* a city of the Fallback Data Table, the call returns successfully and its
\* data is exactly that city's table entry.
C2_FailedFetchReturnsTableEntry ==
    (/\ ~prod
     /\ s_op = "getCityData"
     /\ SvcDone
     /\ s_city \in TableKeys
     /\ FailedResponse(s_response))
    => (/\ s_pc = "returned"
        /\ s_result.kind = "return"
        /\ s_result.value.success = TRUE
        /\ s_result.value.data = FALLBACK_DATA.cityData[s_city])

C2_Witness ==
    /\ ~prod
    /\ s_op = "getCityData"
    /\ s_city = "Mendoza"
    /\ s_pc = "returned"
    /\ s_response = HttpError
    /\ s_result.value.data = FALLBACK_DATA.cityData["Mendoza"]

\* C3: for every city name without an entry in the Fallback Data Table, when
\* the network call of getCityData fails, or in production mode, getCityData
\* throws and returns nothing.
C3_AbsentCityFails ==
    (/\ s_op = "getCityData"
     /\ SvcDone
     /\ s_city \notin TableKeys
     /\ (prod \/ FailedResponse(s_response)))
    => s_pc = "thrown"

\* C4: in production mode, getCityData of a key of the Fallback Data Table
\* never throws and never waits on the network: it returns, and the bundle it
\* returns has every required reading.
C4_OfflineTableCityComplete ==
    (/\ prod
     /\ s_op = "getCityData"
     /\ s_city \in TableKeys
     /\ s_pc # "delay")
    => (/\ s_pc = "returned"
        /\ s_result.kind = "return"
        /\ s_result.value.success = TRUE
        /\ Complete(s_result.value.data))

C4_Witness ==
    /\ prod
    /\ s_op = "getCityData"
    /\ s_city = "Aksu"
    /\ s_pc = "returned"
    /\ Complete(s_result.value.data)
    /\ s_result.value.data.current.weather.humidity = 35

\* C5: in the widget controller, a city-data load that fails for a city
\* without a Fallback Data Table entry ends as a failure (error is set) and
\* stores nothing as that city's data.
C5_FailedLoadStoresNoSubstitute ==
    [][\A i \in 1 .. Len(w_inflight) :
          \A resp \in Responses("city", w_inflight[i].city) :
             (/\ CityDataSettles(i, resp)
              /\ w_inflight[i].city \notin TableKeys
              /\ LoadCityData_OnSettled(w_inflight[i].city, resp).failed)
             => (w_error' # null /\ w_data' = w_data)]_vars

\* C6: when the city-data call answers with a successful HTTP status but an
\* unsuccessful or incomplete payload, getCityData returns the whole Fallback
\* Data Table entry of the city instead of the payload.
C6_IncompletePayloadReplaced ==
    (/\ s_op = "getCityData"
     /\ SvcDone
     /\ s_city \in TableKeys
     /\ FetchSucceeds(s_response)
     /\ ~(/\ IsTrue(s_response.body, "success")
          /\ IsSet(s_response.body, "data")
          /\ Complete(s_response.body.data)))
    => (/\ s_result.kind = "return"
        /\ IsSet(s_result.value, "data")
        /\ s_result.value.data = FALLBACK_DATA.cityData[s_city])

\* C7: in production mode no operation of the fallback-enabled service issues
\* a network request, whatever the city name.
C7_NoNetworkInProduction == prod => s_requests = << >>

\* C8: every city-data load that is started eventually completes: whenever
\* loading is true it eventually becomes false, also when the backend never
\* answers.
C8_LoadingEventuallyFalse == w_loading ~> ~w_loading

\* the threshold table of the specification, closed at the upper boundaries
ThresholdLevel(v) ==
    CASE v <= 1200 -> "GOOD"
      [] 1200 < v /\ v <= 3500 -> "MODERATE"
      [] 3500 < v /\ v <= 5500 -> "UNHEALTHY FOR SENSITIVE"
      [] 5500 < v /\ v <= 15000 -> "UNHEALTHY"
      [] v > 15000 -> "HAZARDOUS"

\* C9: getAirQualityRecommendation(v).level is the level of the threshold
\* table for every v: up to 12 GOOD, above 12 up to 35 MODERATE, above 35 up
\* to 55 UNHEALTHY FOR SENSITIVE, above 55 up to 150 UNHEALTHY, above 150
\* HAZARDOUS.
C9_ThresholdTable == c_pc # "input" => level = ThresholdLevel(pm25Value)

C9_Witness == c_pc # "input" /\ pm25Value = 1201 /\ level = "MODERATE"

Severity(l) ==
    CASE l = "GOOD" -> 1
      [] l = "MODERATE" -> 2
      [] l = "UNHEALTHY FOR SENSITIVE" -> 3
      [] l = "UNHEALTHY" -> 4
      [] l = "HAZARDOUS" -> 5

\* C10: classification is monotonic: for inputs v1 <= v2 the level of v1 is
\* not more severe than the level of v2.
C10_Monotonic ==
    (c_pc = "done" /\ pm25Value <= pm25Other) => Severity(level) <= Severity(levelOther)

C10_Witness ==
    /\ c_pc = "done"
    /\ pm25Value < pm25Other
    /\ level = "UNHEALTHY FOR SENSITIVE"
    /\ levelOther = "UNHEALTHY"

\* C11: every confidence the widget renders is a percentage from 0% to 100%:
\* a backend response whose confidence lies outside [0,1] is rejected and is
\* never displayed.
C11_RenderedConfidenceInRange ==
    (/\ View = "main"
     /\ w_data # null
     /\ "percent" \in DOMAIN ConfidenceText(w_data))
    => ConfidenceText(w_data).percent \in 0 .. 100

\* C12: a getCityData that has to use the Fallback Data Table (production
\* mode, or the try block did not complete) returns data only for a name that
\* is character for character a key of the table.
C12_ExactMatchOnly ==
    (/\ s_op = "getCityData"
     /\ s_pc = "returned"
     /\ (prod \/ ~FetchSucceeds(s_response)))
    => s_city \in TableKeys

\* C13: a call of the fallback-enabled service or of the axios client issues
\* at most one HTTP request, whether the request succeeds or fails.
C13_AtMostOneRequest == Len(s_requests) <= 1 /\ Len(api_requests) <= 1

C13_Witness ==
    /\ api_pc = "thrown"
    /\ api_op = "getCityData"
    /\ Len(api_requests) = 1
    /\ ~prod
    /\ s_pc = "returned"
    /\ s_op = "getCityData"
    /\ s_response = Rejected
    /\ Len(s_requests) = 1

\* C14: in production mode getCityData("Aksu") returns a bundle whose current
\* pm25 is 167.3, whose quality level is HAZARDOUS and whose predicted pm25 is
\* 159.7.
C14_AksuOffline ==
    (/\ prod
     /\ s_op = "getCityData"
     /\ s_city = "Aksu"
     /\ s_pc # "delay")
    => (/\ s_pc = "returned"
        /\ s_result.kind = "return"
        /\ s_result.value.data.current.pm25 = 16730
        /\ s_result.value.data.current.quality_level = "HAZARDOUS"
        /\ s_result.value.data.prediction.predicted_pm25 = 15970)

C14_Witness ==
    /\ prod
    /\ s_op = "getCityData"
    /\ s_city = "Aksu"
    /\ s_pc = "returned"
    /\ s_requests = << >>
    /\ s_result.value.data.current.aqi = 225

\* the 7 monitored cities of the README
DocumentedCities ==
    {"Ciudad de México", "Nueva York", "Los Ángeles", "Madrid", "Londres",
     "Mendoza", "Aksu"}

\* C15: in production mode getCities returns exactly the 7 documented cities,
\* and getCityData returns for every city of that list.
C15_DemoListMatchesTable ==
    /\ (prod /\ s_op = "getCities" /\ s_pc # "delay")
         => (/\ s_pc = "returned"
             /\ Len(s_result.value.cities) = 7
             /\ CityNamesOf(s_result.value.cities) = DocumentedCities
             /\ \A name \in CityNamesOf(s_result.value.cities) :
                   GetCityData_AfterDelay(prod, name).kind = "return")
    /\ (prod /\ s_op = "getCityData" /\ s_city \in DocumentedCities /\ SvcDone)
         => s_pc = "returned"

C15_Witness ==
    /\ prod
    /\ s_op = "getCities"
    /\ s_pc = "returned"
    /\ s_result.value.cities[7].name = "Aksu"

\* every bundle getCityData can resolve for the city
ServiceBundlesFor(cityName) ==
    LET results == {AfterDelay("getCityData", TRUE, cityName)}
                     \cup {OnSettled("getCityData", cityName, resp) :
                              resp \in Responses("city", cityName)}
    IN  {r.value.data : r \in {x \in results : /\ x.kind = "return"
                                                /\ IsTrue(x.value, "success")
                                                /\ IsSet(x.value, "data")}}

\* C16: in App, once the load of a selection has completed, the state is
\* either Ready, holding a bundle resolved for the selected city, or Failed,
\* holding the error (the only failure App's state can hold is the
\* backendStatus "Disconnected").
C16_ReadyOrFailed ==
    (a_mounted /\ a_userLoads > 0 /\ ~a_loadingCityData)
    => \/ a_airQualityData \in ServiceBundlesFor(a_selectedCity)
       \/ a_backendStatus = "Disconnected"

\* C17: whatever the outcome of the health check, in App the resolution of
\* the selected city's data is started, and a resolution that is started
\* completes.  The behaviours in which the health check answered "healthy"
\* (backendStatus "Working") are left aside: there the start depends on
\* getCities, not on the health check.
C17_LoadStartsWhateverHealth ==
    /\ <>(a_loadingCityData \/ a_backendStatus = "Working")
    /\ a_loadingCityData ~> ~a_loadingCityData

\* the entries of the Fallback Data Table
TableEntries == {FALLBACK_DATA.cityData[k] : k \in TableKeys}

\* C18: whenever the bundle App renders is the table entry that replaced a
\* failed live fetch, the state flags the degraded mode (the only flag App's
\* state has is a backendStatus other than "Working").
C18_FallbackIsFlagged ==
    (~prod /\ a_airQualityData \in TableEntries) => a_backendStatus # "Working"

\* C19: in the widget controller the health check is repeated while the view
\* is mounted: if the backend becomes unreachable and stays so, backendOnline
\* eventually becomes false.
C19_OfflineEventuallyNoticed ==
    (w_mounted /\ backend = "down") ~> (~w_backendOnline \/ backend # "down")

\* C20: from the first render the widget controller is loading with the
\* default city selected; once mounted, and until a load has completed
\* (data is set by every load that completes), a request for the default
\* city is in flight without any user action; and the data view is not shown
\* before a load has completed.
C20_MountLoadsDefaultCity ==
    /\ ~w_mounted => (w_loading /\ w_selectedCity = DefaultCity /\ w_data = null)
    /\ (w_mounted /\ w_data = null /\ w_userLoads = 0)
         => (/\ w_loading
             /\ w_selectedCity = DefaultCity
             /\ \E i \in 1 .. Len(w_inflight) :
                   w_inflight[i] = Request("city", DefaultCity))
    /\ w_data = null => View = "loading"

C20_Witness ==
    /\ w_mounted
    /\ w_userLoads = 0
    /\ w_data = null
    /\ w_loading
    /\ View = "loading"
    /\ w_inflight = << Request("health", NoCity), Request("city", DefaultCity) >>

\* C21: a refresh repeats the resolution for the selected city and changes
\* nothing else: in App the Actualizar Datos button leaves selectedCity as it
\* is, and the city list, once loaded, is the same after a refresh as before
\* it (after the mount only a refresh can write cities).
C21_RefreshKeepsSelectionAndList ==
    [][/\ AppRefresh => a_selectedCity' = a_selectedCity
       /\ a_cities # << >> => a_cities' = a_cities]_vars

\* the city-data requests of the widget controller that are in flight
CityRequestsInFlight ==
    Cardinality({i \in 1 .. Len(w_inflight) : w_inflight[i].endpoint = "city"})

\* C22: the widget controller starts exactly one city-data request per
\* triggering action (the mount, each selection, each refresh), so no more
\* requests are in flight than one for the mount plus one per user action.
C22_OneRequestPerAction == CityRequestsInFlight <= 1 + w_userLoads

\* C24: in the widget controller loading is true whenever at least one
\* city-data load is in flight.
C24_LoadingWhileInFlight == CityRequestsInFlight > 0 => w_loading

\* C25: in the widget controller, whenever loading is false, error is non-null
\* if and only if data is the hardcoded substitute bundle of a failed load.
C25_ErrorIffSubstitute ==
    ~w_loading => ((w_error # null) <=> (w_data = SubstituteData))

\* C28: in the widget controller, once a city-data load has completed (loading
\* is false) data is non-null and stays non-null, so the blocking error screen
\* is never rendered.
C28_DataNeverNullAgain ==
    /\ [](~w_loading => w_data # null)
    /\ [](View # "error")
    /\ [][w_data # null => w_data' # null]_vars

C28_Witness ==
    /\ ~w_loading
    /\ w_error # null
    /\ w_data = SubstituteData
    /\ View = "main"

\* C23: the quality level App shows for a bundle is the threshold
\* classification of that bundle's current pm25, for live bundles and for the
\* entries of the Fallback Data Table alike.
C23_BadgeIsClassification ==
    (/\ Truthy(a_airQualityData)
     /\ "current" \in DOMAIN a_airQualityData
     /\ "pm25" \in DOMAIN a_airQualityData.current)
    => QualityBadge(a_airQualityData)
         = getAirQualityRecommendation(a_airQualityData.current.pm25).level

\* the getCityData calls of App that are in flight
CityLoadsInFlight ==
    Cardinality({i \in 1 .. Len(a_calls) : a_calls[i].op = "getCityData"})

\* every value a successful getCityData can hand to setAirQualityData for the city
ServiceDataFor(cityName) ==
    LET results == {AfterDelay("getCityData", TRUE, cityName)}
                     \cup {OnSettled("getCityData", cityName, resp) :
                              resp \in Responses("city", cityName)}
    IN  {Lookup(r.value, "data") :
            r \in {x \in results : x.kind = "return" /\ IsTrue(x.value, "success")}}

\* C26: in the App of part_004 at most one city-data load is in flight at any
\* time, the load in flight is the selected city's, and when a load stores
\* a value it is what the service resolved for the selected city.
C26_OneLoadAtATime ==
    /\ [](a_variant = "part_004"
            => /\ CityLoadsInFlight <= 1
               /\ \A i \in 1 .. Len(a_calls) :
                     a_calls[i].op = "getCityData"
                     => (a_calls[i].city = a_selectedCity /\ a_loadingCityData))
    /\ [][(a_variant = "part_004" /\ a_airQualityData' # a_airQualityData)
            => a_airQualityData' \in ServiceDataFor(a_selectedCity')]_vars

C26_Witness ==
    /\ a_variant = "part_004"
    /\ a_userLoads > 0
    /\ a_selectedCity = "Mendoza"
    /\ ~a_loadingCityData
    /\ a_airQualityData = LiveData("Mendoza")

\* C27: getHealth of the fallback-enabled service never throws and answers
\* status "healthy" in production mode and whenever its fetch fails; so in
\* App backendStatus is never "Disconnected".
C27_NeverDisconnected ==
    /\ a_backendStatus # "Disconnected"
    /\ HealthIsHealthy(AfterDelay("getHealth", TRUE, NoCity))
    /\ \A resp \in Responses("health", NoCity) :
          /\ OnSettled("getHealth", NoCity, resp).kind = "return"
          /\ ~FetchSucceeds(resp) => HealthIsHealthy(OnSettled("getHealth", NoCity, resp))

C27_Witness ==
    /\ ~prod
    /\ a_mounted
    /\ a_backendStatus = "Working"
    /\ a_cities = FALLBACK_DATA.cities
    /\ a_airQualityData = FALLBACK_DATA.cityData[DefaultCity]

\* C29: in App a city-data load that fails (getCityData throws) or answers
\* success false changes only loadingCityData: airQualityData, cities,
\* backendStatus and selectedCity are the same after it as before it.
C29_FailedLoadChangesOnlyFlag ==
    [][\A i \in 1 .. Len(a_calls) :
          \A resp \in Responses("city", a_calls[i].city) :
             LET r == OnSettled("getCityData", a_calls[i].city, resp)
             IN  (/\ a_calls[i].op = "getCityData"
                  /\ AppFetchSettles(i, resp)
                  /\ (r.kind = "throw" \/ ~IsTrue(r.value, "success")))
                 => (/\ a_airQualityData' = a_airQualityData
                     /\ a_cities' = a_cities
                     /\ a_backendStatus' = a_backendStatus
                     /\ a_selectedCity' = a_selectedCity
                     /\ ~a_loadingCityData')]_vars

C29_Witness ==
    /\ a_mounted
    /\ a_selectedCity = "Paris"
    /\ ~a_loadingCityData
    /\ a_calls = << >>
    /\ a_airQualityData = LiveData(DefaultCity)

\* C30: useServerHealth starts one health check at mount and one at every
\* firing of the interval while mounted; after each check that completes
\* while mounted isHealthy tells whether that check succeeded (and loading is
\* false); after the unmount no further check is started.
C30_HealthCheckLifecycle ==
    /\ [](h_state = "init" => (h_started = 0 /\ ~h_interval))
    /\ [](h_state = "mounted" => (h_started >= 1 /\ h_interval))
    /\ [][/\ h_state = "unmounted" => h_started' = h_started
          /\ h_started' \in {h_started, h_started + 1}
          /\ \A r \in GetHealthOutcomes :
                (HealthCheckSettles(r) /\ h_state = "mounted")
                => (h_isHealthy' = (r.kind = "return") /\ ~h_loading')]_vars

C30_Witness ==
    /\ h_state = "unmounted"
    /\ h_started = 2
    /\ h_pending = 0
    /\ ~h_isHealthy
    /\ ~h_loading

=============================================================================
